---- MODULE Spec2Model ----
(***************************************************************************)
(* Model of assign_workshops.py: forced placements, the three sequential   *)
(* cohort solves over one shared residual-capacity table, and the          *)
(* diagnostic probes that run on copies of that table.                     *)
(*                                                                         *)
(* The integer program of solve_group is modelled by its constraint set:   *)
(* an assignment x gives every student of the cohort the set of slots      *)
(* whose binary variable is 1.  The solver returns an assignment of        *)
(* minimal objective among those satisfying every constraint; when none    *)
(* exists no variable has value 1 and solve_group returns no rows (the     *)
(* reading of the code at main, "no rows returned -> infeasible").         *)
(***************************************************************************)
EXTENDS Integers, Sequences, FiniteSets, TLC

(***************************************************************************)
(* Bounds of the explored inputs.                                          *)
(***************************************************************************)
\* largest schedule capacity of a slot that holds a forced placement
MaxCap == 5
\* largest schedule capacity of a slot without forced placement
MaxOtherCap == 2
\* latest submission day (day of June 2025) of a participant
MaxDay == 24

(***************************************************************************)
(* Program constants.                                                      *)
(***************************************************************************)
\* datetime(2025, 6, 23) and datetime(2025, 6, 24), as days of June 2025
early_cut == 23
mid_cut == 24

\* cost.get((s, w), 999) in the tier classification, cost.get((s, w), 99)
\* in the objective
NoRank == 999
Penalty == 99

(***************************************************************************)
(* Input data: the schedule (workshop_schedule.csv after the groupby of    *)
(* main) and the participants.  Capacities, preferences and submission     *)
(* days are chosen in Init.                                                *)
(***************************************************************************)
\* the rows of grp, in groupby order (Day, Workshop Title, Session)
grp ==
  << [Day |-> "Thursday",  Title |-> "Naar de kaasboerderij", Session |-> 0, Full |-> TRUE],
     [Day |-> "Tuesday",   Title |-> "Papier leer",           Session |-> 1, Full |-> FALSE],
     [Day |-> "Tuesday",   Title |-> "Papier leer",           Session |-> 2, Full |-> FALSE],
     [Day |-> "Tuesday",   Title |-> "Vissen",                Session |-> 1, Full |-> FALSE],
     [Day |-> "Tuesday",   Title |-> "Zwemmen",               Session |-> 2, Full |-> FALSE],
     [Day |-> "Wednesday", Title |-> "Hond in de hoofdrol",   Session |-> 1, Full |-> FALSE],
     [Day |-> "Wednesday", Title |-> "Vissen",                Session |-> 1, Full |-> FALSE],
     [Day |-> "Wednesday", Title |-> "Vuvuzela maken",        Session |-> 2, Full |-> FALSE],
     [Day |-> "Wednesday", Title |-> "Zwemmen",               Session |-> 1, Full |-> FALSE] >>

\* the keys (w, d, t) of cap_map, in insertion order
SlotSeq == [n \in 1..Len(grp) |-> <<grp[n].Title, grp[n].Day, grp[n].Session>>]
SlotKeys == {SlotSeq[n] : n \in 1..Len(SlotSeq)}

\* days = sorted(grp['Day'].unique())
days == {grp[n].Day : n \in 1..Len(grp)}

\* full_map[(w, d, t)] = bool(int(row['Full_Day_Session']))
full_map == [k \in SlotKeys |-> \E n \in 1..Len(grp) : SlotSeq[n] = k /\ grp[n].Full]

\* build_zone_map: workshop -> zone of its first preference row
zone_map ==
  [w \in {k[1] : k \in SlotKeys} |->
     CASE w \in {"Vissen", "Hond in de hoofdrol", "Zwemmen"} -> "Natuur"
       [] w \in {"Papier leer", "Vuvuzela maken"}            -> "Creatief"
       [] OTHER                                               -> "Boerderij"]

\* pre_assign with one mistyped slot: niels hielkema is placed in Papier leer
\* on Tuesday session 1 instead of Vissen
pre_assign_typo ==
  [s \in {"jesse wolters", "niels hielkema"} |->
     << IF s = "niels hielkema" THEN <<"Papier leer", "Tuesday", 1>>
                                ELSE <<"Vissen", "Tuesday", 1>>,
        <<"Papier leer", "Tuesday", 2>>,
        <<"Hond in de hoofdrol", "Wednesday", 1>>,
        <<"Vuvuzela maken", "Wednesday", 2>>,
        <<"Naar de kaasboerderij", "Thursday", 0>> >>]

\* the exactly-preassigned slots of the two forced participants
pre_assign ==
  [s \in {"jesse wolters", "niels hielkema"} |->
     << <<"Vissen", "Tuesday", 1>>,
        <<"Papier leer", "Tuesday", 2>>,
        <<"Hond in de hoofdrol", "Wednesday", 1>>,
        <<"Vuvuzela maken", "Wednesday", 2>>,
        <<"Naar de kaasboerderij", "Thursday", 0>> >>]

\* iteration order of pre_assign.items()
pre_assign_order == <<"jesse wolters", "niels hielkema">>

forced_students == DOMAIN pre_assign

\* sorted(prefs['Student'].unique())
sorted_students == <<"anna", "bram", "coen", "jesse wolters", "niels hielkema">>
Students == {sorted_students[n] : n \in 1..Len(sorted_students)}

\* the preference rows (Workshop, Rank) a participant may have submitted
PrefFull ==
  << <<"Vissen", 1>>, <<"Hond in de hoofdrol", 1>>, <<"Zwemmen", 2>>,
     <<"Papier leer", 1>>, <<"Vuvuzela maken", 1>>,
     <<"Naar de kaasboerderij", 1>> >>
PrefSwim ==
  << <<"Zwemmen", 2>>, <<"Zwemmen", 1>>, <<"Vissen", 2>>, <<"Hond in de hoofdrol", 3>>,
     <<"Papier leer", 1>>, <<"Vuvuzela maken", 2>>,
     <<"Naar de kaasboerderij", 1>> >>
PrefSingle ==
  << <<"Vissen", 1>>,
     <<"Papier leer", 1>>, <<"Vuvuzela maken", 1>>,
     <<"Naar de kaasboerderij", 1>> >>
PrefLists == {PrefFull, PrefSwim, PrefSingle}

\* the preference lists each participant is drawn from
PrefChoices ==
  [s \in Students |->
     CASE s = "anna" -> {PrefFull}
       [] s = "bram" -> {PrefFull, PrefSwim}
       [] s = "coen" -> {PrefSingle, PrefSwim}
       [] OTHER      -> {PrefFull}]

\* submission days
Dates == (early_cut - 1)..MaxDay

(***************************************************************************)
(* State.                                                                  *)
(***************************************************************************)
VARIABLES
  Capacity,   \* input: schedule capacity per slot (grp['Capacity'])
  prefs,      \* input: preference rows per participant
  dates,      \* input: submission day per participant
  pc,         \* position in main
  cap_map,    \* the shared residual-capacity table
  rows,       \* the accumulated assignment rows
  cap_tmp,    \* the capacity copy of the probes
  chosen,     \* the participants of the incremental build-up test
  idx,        \* loop position of the probes in students_early
  dups        \* the duplicate (Student, Workshop Title) pairs found

vars == <<Capacity, prefs, dates, pc, cap_map, rows, cap_tmp, chosen, idx, dups>>

(***************************************************************************)
(* Loader helpers.                                                         *)
(***************************************************************************)
\* build_costs: (student, workshop) -> minimum rank over duplicate rows
build_costs(p) ==
  [w \in {p[n][1] : n \in 1..Len(p)} |->
     CHOOSE r \in {p[n][2] : n \in {m \in 1..Len(p) : p[m][1] = w}} :
       \A n \in 1..Len(p) : p[n][1] = w => r <= p[n][2]]

\* cost.get((s, w), dflt) on the cost row c of one participant
CostGet(c, w, dflt) == IF w \in DOMAIN c THEN c[w] ELSE dflt

(***************************************************************************)
(* solve_group: the constraint set.  a is the set of slots (w, d, t) whose *)
(* variable x[(s, w, d, t)] is 1 for one participant s, c the cost row of  *)
(* s, x a function from the cohort's participants to such sets.            *)
(***************************************************************************)
zones == {zone_map[w] : w \in DOMAIN zone_map}

workshops == {k[1] : k \in SlotKeys}

\* the half-day and the full-day slots of zone z
half_pairs(z) == {k \in SlotKeys : ~full_map[k] /\ zone_map[k[1]] = z}
full_pairs(z) == {<<k[1], k[2], 0>> : k \in {q \in SlotKeys : full_map[q] /\ zone_map[q[1]] = z}}

\* the workshop titles of the pairs of zone z
PairTitles(z) == {k[1] : k \in half_pairs(z) \cup full_pairs(z)}

\* distinct first- and second-choice workshop titles of zone z
rank1_set(c, z) == {w \in PairTitles(z) : CostGet(c, w, NoRank) = 1}
rank2_set(c, z) ==
  {w \in PairTitles(z) : CostGet(c, w, NoRank) = 2 /\ w \notin rank1_set(c, z)}

\* the titles in neither set
other_set(c, z) == workshops \ (rank1_set(c, z) \cup rank2_set(c, z))

\* slot-units of the slots a taken among the titles W: a half-day slot
\* counts 1, a full-day slot 2
TierUnits(hp, fp, W, a) ==
  Cardinality({k \in hp \cap a : k[1] \in W}) + 2 * Cardinality({k \in fp \cap a : k[1] \in W})

fsz(c, z, a) == TierUnits(half_pairs(z), full_pairs(z), rank1_set(c, z), a)
ssz(c, z, a) == TierUnits(half_pairs(z), full_pairs(z), rank2_set(c, z), a)
osz(c, z, a) == TierUnits(half_pairs(z), full_pairs(z), other_set(c, z), a)

\* the wild-card limit taken as the shortfall of preferred titles below two
allow_random_shortfall(c, z) ==
  IF Cardinality(rank1_set(c, z) \cup rank2_set(c, z)) < 2
  THEN 2 - Cardinality(rank1_set(c, z) \cup rank2_set(c, z))
  ELSE 0

\* how many random slots are allowed: only if no distinct second choices
\* were provided
allow_random(c, z) == IF Cardinality(rank2_set(c, z)) = 0 THEN 1 ELSE 0

\* 1) exactly two slots in this zone
TwoPerZone(f, s, o) == f + s + o = 2

\* 2) fill any missing #1 slots with #2s
UseSeconds(f, s) == s >= 2 - f

\* 3) the wild-card limit
RandLimit(o, allow) == o <= allow

\* the three constraints of one participant and zone, on the tier sums
ZoneRows(f, s, o, allow) ==
  TwoPerZone(f, s, o) /\ UseSeconds(f, s) /\ RandLimit(o, allow)

ZoneConstraints(c, z, a) ==
  ZoneRows(fsz(c, z, a), ssz(c, z, a), osz(c, z, a), allow_random(c, z))

\* the no-repeat sum taken per workshop and day instead of per workshop
NoRepeat_perDay(a) ==
  \A w \in workshops, d \in days : Cardinality({k \in a : k[1] = w /\ k[2] = d}) <= 1

\* each student may take a given workshop at most once
NoRepeat(a) ==
  \A w \in workshops : Cardinality({k \in a : k[1] = w}) <= 1

\* the slots of a that cover session t of day d; a full-day slot covers both
CoverCount(a, d, t, fm) ==
  Cardinality({k \in a : k[2] = d /\ k[3] = t})
  + Cardinality({k \in a : k[2] = d /\ k[3] = 0 /\ fm[k]})

\* one slot per day and session
OnePerSlot(a) ==
  \A d \in days, t \in {1, 2} : CoverCount(a, d, t, full_map) = 1

\* the constraints that bind one participant alone
StudentConstraints(c, a) ==
  /\ \A z \in zones : ZoneConstraints(c, z, a)
  /\ NoRepeat(a)
  /\ OnePerSlot(a)

\* capacity constraint over the cohort
CapacityOK(x, cap) ==
  \A k \in DOMAIN cap : Cardinality({s \in DOMAIN x : k \in x[s]}) <= cap[k]

\* the cost row of each preference list
CostOf == [p \in PrefLists |-> build_costs(p)]

\* the pairs (preference list, slot set) that satisfy the per-participant
\* constraints
ChoicePairs ==
  {r : r \in {q \in PrefLists \X (SUBSET SlotKeys) : StudentConstraints(CostOf[q[1]], q[2])}}

cost(s) == CostOf[prefs[s]]

\* the assignments x of the participants S, drawn from the pairs CP, that
\* respect the capacities
FeasibleAmong(CP, S, cap) ==
  {x \in [S -> {q[2] : q \in CP}] :
     /\ \A s \in S : <<prefs[s], x[s]>> \in CP
     /\ CapacityOK(x, cap)}

\* the feasible region of the model built for the participants S
Feasible(S, cap) == FeasibleAmong(ChoicePairs, S, cap)

\* objective: sum of cost.get((s, w), 99) over the variables set to 1
RECURSIVE SlotCost(_, _)
SlotCost(c, a) ==
  IF a = {} THEN 0
  ELSE LET k == CHOOSE q \in a : TRUE
       IN CostGet(c, k[1], Penalty) + SlotCost(c, a \ {k})

RECURSIVE Objective(_, _)
Objective(x, S) ==
  IF S = {} THEN 0
  ELSE LET s == CHOOSE q \in S : TRUE
       IN SlotCost(cost(s), x[s]) + Objective(x, S \ {s})

\* the elements of F whose objective is the least of the values vals
Minimal(F, S, vals) == {x \in F : \A v \in vals : Objective(x, S) <= v}

\* the assignments the solver may return: those of minimal objective
Best(F, S) == Minimal(F, S, {Objective(x, S) : x \in F})

Optimal(S, cap) == Best(Feasible(S, cap), S)

Range(q) == {q[n] : n \in 1..Len(q)}

\* the row of participant s on slot k
Row(s, k, zm) ==
  [Student |-> s, Zone |-> zm[k[1]], Day |-> k[2], Session |-> k[3], Title |-> k[1]]

\* the rows appended by solve_group, in x.items() order
RowsIn(x, studs, slots) ==
  SelectSeq([j \in 1..(Len(studs) * Len(slots)) |->
               Row(studs[((j - 1) \div Len(slots)) + 1], slots[((j - 1) % Len(slots)) + 1], zone_map)],
            LAMBDA r : <<r.Title, r.Day, r.Session>> \in x[r.Student])

RowsOf(x, studs) == RowsIn(x, studs, SlotSeq)

\* cap_map[(w, d, t)] -= 1 for every variable set to 1
Consume(x, cap) ==
  [k \in DOMAIN cap |-> cap[k] - Cardinality({s \in DOMAIN x : k \in x[s]})]

\* the outcomes of a solve whose solver may return the assignments O
Outcomes(O, studs, cap) ==
  IF O = {} THEN {[rows |-> << >>, cap |-> cap]}
  ELSE {[rows |-> RowsOf(x, studs), cap |-> Consume(x, cap)] : x \in O}

\* the outcomes of solve_group(students, ..., cap_map, ...): the returned rows
\* and the capacity table as updated in place
solve_group(studs, cap) ==
  IF Len(studs) = 0 THEN {[rows |-> << >>, cap |-> cap]}
  ELSE Outcomes(Optimal(Range(studs), cap), studs, cap)

(***************************************************************************)
(* main: the cohorts.                                                      *)
(***************************************************************************)
all_students == SelectSeq(sorted_students, LAMBDA s : s \notin forced_students)
students_early == SelectSeq(all_students, LAMBDA s : dates[s] < early_cut)
\* the mid cohort with an open lower boundary
students_mid_open == SelectSeq(all_students, LAMBDA s : early_cut < dates[s] /\ dates[s] < mid_cut)
students_mid == SelectSeq(all_students, LAMBDA s : early_cut <= dates[s] /\ dates[s] < mid_cut)
students_late == SelectSeq(all_students, LAMBDA s : dates[s] >= mid_cut)

\* one seat subtracted per slot, however many forced participants hold it
PreassignedSeats_once(k) ==
  IF \E s \in DOMAIN pre_assign : k \in Range(pre_assign[s]) THEN 1 ELSE 0

\* the seats of slot k taken by the forced participants
PreassignedSeats(k) ==
  Cardinality({s \in DOMAIN pre_assign : k \in Range(pre_assign[s])})

\* the rows of the forced participants pa, taken in the order ord
ForcedRowsOf(pa, ord, n) ==
  [j \in 1..(Len(ord) * n) |->
     Row(ord[((j - 1) \div n) + 1], pa[ord[((j - 1) \div n) + 1]][((j - 1) % n) + 1], zone_map)]

ForcedRows == ForcedRowsOf(pre_assign, pre_assign_order, Len(pre_assign[pre_assign_order[1]]))

\* the (Student, Workshop Title) groups of size > 1
Duplicates(rs) ==
  {<<rs[m].Student, rs[m].Title>> : m \in
     {i \in 1..Len(rs) : \E j \in 1..Len(rs) :
        i # j /\ rs[i].Student = rs[j].Student /\ rs[i].Title = rs[j].Title}}

NoCaps == [k \in {} |-> 0]

(***************************************************************************)
(* Initial states: the inputs are read, nothing is built yet.              *)
(***************************************************************************)
Init ==
  /\ \E cf \in 1..MaxCap, co \in 0..MaxOtherCap :
       Capacity = [k \in SlotKeys |-> IF PreassignedSeats(k) > 0 THEN cf ELSE co]
  /\ prefs \in {f \in [Students -> PrefLists] : \A s \in Students : f[s] \in PrefChoices[s]}
  /\ dates \in {f \in [Students -> Dates] : \A s, t \in forced_students : f[s] = f[t]}
  /\ pc = "build"
  /\ cap_map = NoCaps
  /\ rows = << >>
  /\ cap_tmp = NoCaps
  /\ chosen = << >>
  /\ idx = 0
  /\ dups = {}

(***************************************************************************)
(* Actions of main.                                                        *)
(***************************************************************************)
\* 3) build the capacity map and subtract the preassigned seats;
\* 4) collect the rows of the forced participants
BuildCapMaps ==
  /\ pc = "build"
  /\ cap_map' = [k \in SlotKeys |-> Capacity[k] - PreassignedSeats(k)]
  /\ rows' = ForcedRows
  /\ idx' = 1
  /\ pc' = "probe"
  /\ UNCHANGED <<Capacity, prefs, dates, cap_tmp, chosen, dups>>

\* the probe run on cap_map itself instead of on a copy
FeasibilityProbe_shared ==
  /\ pc = "probe"
  /\ idx <= Len(students_early)
  /\ \E o \in solve_group(<<students_early[idx]>>, cap_map) :
       /\ cap_tmp' = o.cap
       /\ cap_map' = o.cap
  /\ idx' = idx + 1
  /\ UNCHANGED <<Capacity, prefs, dates, pc, rows, chosen, dups>>

\* feasibility check, early cohort one by one: one student on a copy
FeasibilityProbe ==
  /\ pc = "probe"
  /\ idx <= Len(students_early)
  /\ \E o \in solve_group(<<students_early[idx]>>, cap_map) :
       cap_tmp' = o.cap
  /\ idx' = idx + 1
  /\ UNCHANGED <<Capacity, prefs, dates, pc, cap_map, rows, chosen, dups>>

\* end of the probe loop; the incremental test starts from a fresh copy
ProbeFinished ==
  /\ pc = "probe"
  /\ idx > Len(students_early)
  /\ cap_tmp' = cap_map
  /\ chosen' = << >>
  /\ idx' = 1
  /\ pc' = "incr"
  /\ UNCHANGED <<Capacity, prefs, dates, cap_map, rows, dups>>

\* the seats of the rows rs of student stu
SeatsOf(rs, stu, k) ==
  Cardinality({j \in 1..Len(rs) :
     rs[j].Student = stu /\ <<rs[j].Title, rs[j].Day, rs[j].Session>> = k})

\* incremental build-up test: solve for everyone chosen so far on a copy of
\* cap_tmp, then remove the seats of the new student only, or break
IncrementalStep ==
  /\ pc = "incr"
  /\ idx <= Len(students_early)
  /\ LET stu == students_early[idx]
     IN /\ chosen' = Append(chosen, stu)
        /\ \E o \in solve_group(Append(chosen, stu), cap_tmp) :
             IF Len(o.rows) > 0
             THEN /\ cap_tmp' = [k \in DOMAIN cap_tmp |-> cap_tmp[k] - SeatsOf(o.rows, stu, k)]
                  /\ idx' = idx + 1
                  /\ pc' = pc
             ELSE /\ cap_tmp' = cap_tmp
                  /\ idx' = idx
                  /\ pc' = "solve_early"
  /\ UNCHANGED <<Capacity, prefs, dates, cap_map, rows, dups>>

IncrementalFinished ==
  /\ pc = "incr"
  /\ idx > Len(students_early)
  /\ pc' = "solve_early"
  /\ UNCHANGED <<Capacity, prefs, dates, cap_map, rows, cap_tmp, chosen, idx, dups>>

\* rows += solve_group(students_early, ..., cap_map, ...)
SolveEarly ==
  /\ pc = "solve_early"
  /\ \E o \in solve_group(students_early, cap_map) :
       /\ rows' = rows \o o.rows
       /\ cap_map' = o.cap
  /\ pc' = "solve_mid"
  /\ UNCHANGED <<Capacity, prefs, dates, cap_tmp, chosen, idx, dups>>

\* rows += solve_group(students_mid, ..., cap_map, ...)
SolveMid ==
  /\ pc = "solve_mid"
  /\ \E o \in solve_group(students_mid, cap_map) :
       /\ rows' = rows \o o.rows
       /\ cap_map' = o.cap
  /\ pc' = "solve_late"
  /\ UNCHANGED <<Capacity, prefs, dates, cap_tmp, chosen, idx, dups>>

\* rows += solve_group(students_late, ..., cap_map, ...)
SolveLate ==
  /\ pc = "solve_late"
  /\ \E o \in solve_group(students_late, cap_map) :
       /\ rows' = rows \o o.rows
       /\ cap_map' = o.cap
  /\ pc' = "validate"
  /\ UNCHANGED <<Capacity, prefs, dates, cap_tmp, chosen, idx, dups>>

\* the duplicate check and the output
Validate ==
  /\ pc = "validate"
  /\ dups' = Duplicates(rows)
  /\ pc' = "done"
  /\ UNCHANGED <<Capacity, prefs, dates, cap_map, rows, cap_tmp, chosen, idx>>

Next ==
  \/ BuildCapMaps
  \/ FeasibilityProbe
  \/ ProbeFinished
  \/ IncrementalStep
  \/ IncrementalFinished
  \/ SolveEarly
  \/ SolveMid
  \/ SolveLate
  \/ Validate

Spec == Init /\ [][Next]_vars

TypeOK ==
  /\ pc \in {"build", "probe", "incr", "solve_early", "solve_mid", "solve_late", "validate", "done"}
  /\ DOMAIN cap_map \in {{}, SlotKeys}

(***************************************************************************)
(* Properties.                                                             *)
(***************************************************************************)
KeyOf(r) == <<r.Title, r.Day, r.Session>>

\* the participants some row of the result names
Assigned == {rows[j].Student : j \in 1..Len(rows)}

\* rows of the cohort solves, and rows of the forced placements, on slot k
AssignedBySolves(k) ==
  Cardinality({j \in 1..Len(rows) : rows[j].Student \notin forced_students /\ KeyOf(rows[j]) = k})
ForcedPlacements(k) ==
  Cardinality({j \in 1..Len(rows) : rows[j].Student \in forced_students /\ KeyOf(rows[j]) = k})

\* a non-empty cohort whose participants have no row
CohortFailed(studs) == Len(studs) > 0 /\ Range(studs) \cap Assigned = {}

\* C1: after the whole run, the number of participants the cohort solves
\* assigned to a slot never exceeds the slot's schedule capacity minus the
\* forced placements occupying it.
C1_CapacityRespected ==
  pc = "done" =>
    \A k \in SlotKeys : AssignedBySolves(k) <= Capacity[k] - ForcedPlacements(k)

\* C2: every entry of the residual-capacity table cap_map is non-negative in
\* every reachable state.
C2_CapMapNonNegative ==
  \A k \in DOMAIN cap_map : cap_map[k] >= 0

\* slot-units of participant s in zone z: a half-day row 1, a full-day row 2
ZoneUnits(s, z) ==
  Cardinality({j \in 1..Len(rows) :
     rows[j].Student = s /\ zone_map[rows[j].Title] = z /\ ~full_map[KeyOf(rows[j])]})
  + 2 * Cardinality({j \in 1..Len(rows) :
     rows[j].Student = s /\ zone_map[rows[j].Title] = z /\ full_map[KeyOf(rows[j])]})

Covering(s, d, t) ==
  {j \in 1..Len(rows) :
     /\ rows[j].Student = s
     /\ rows[j].Day = d
     /\ \/ rows[j].Session = t
        \/ rows[j].Session = 0 /\ full_map[KeyOf(rows[j])]}

\* C4: for every participant and every day, the produced assignment set has
\* exactly one assignment covering session 1 and exactly one covering
\* session 2, a full-day slot covering both.
C4_OnePerPeriod ==
  pc = "done" =>
    \A s \in Students, d \in days, t \in {1, 2} : Cardinality(Covering(s, d, t)) = 1

\* C5: in the final accumulated result no (participant, activity title) pair
\* occurs more than once.
C5_NoRepeatedPair ==
  pc \in {"validate", "done"} =>
    \A i, j \in 1..Len(rows) :
      (rows[i].Student = rows[j].Student /\ rows[i].Title = rows[j].Title) => i = j

C5_Witness ==
  /\ pc = "done"
  /\ \E s \in Assigned \ forced_students :
       \E j \in 1..Len(rows) : rows[j].Student = s /\ rows[j].Title = "Vissen"
  /\ Cardinality(Assigned \ forced_students) >= 2

\* C6: if a cohort's solve fails, the run halts there: no later cohort is
\* solved and the run does not reach validation and output.  The run stays
\* at the position it had when the failing solve returned.
C6_FailureHalts ==
  /\ (pc \in {"solve_late", "validate", "done"} => ~CohortFailed(students_early))
  /\ (pc \in {"validate", "done"} => ~CohortFailed(students_mid))
  /\ (pc = "done" => ~CohortFailed(students_late))

\* participant s ranks workshop w first and has no other entry in zone z
SinglePref(s, z, w) ==
  /\ {v \in DOMAIN cost(s) : zone_map[v] = z} = {w}
  /\ cost(s)[w] = 1
  /\ zone_map[w] = z
  /\ \A k \in SlotKeys : k[1] = w => ~full_map[k]

\* every slot of w is exhausted and a cohort solve has taken a seat of w
ExhaustedByCohort(w) ==
  /\ \A k \in SlotKeys : k[1] = w => cap_map[k] = 0
  /\ \E k \in SlotKeys : k[1] = w /\ AssignedBySolves(k) > 0

\* the cohort whose solve is about to start
NextCohort ==
  CASE pc = "solve_early" -> students_early
    [] pc = "solve_mid"   -> students_mid
    [] pc = "solve_late"  -> students_late
    [] OTHER              -> << >>

\* C7: when participant P has a single preference in zone Z (rank 1 for the
\* half-day activity A) and A is exhausted by an earlier cohort, the model
\* built for P has a feasible assignment giving P one random-tier unit in Z.
C7_FallbackFeasible ==
  \A P \in Range(NextCohort), z \in zones, w \in workshops :
    (SinglePref(P, z, w) /\ ExhaustedByCohort(w)) =>
      \E x \in Feasible({P}, cap_map) : osz(cost(P), z, x[P]) = 1

\* the number of cohorts participant s belongs to
CohortsOf(s) ==
  Cardinality({c \in {"early", "mid", "late"} :
     \/ c = "early" /\ s \in Range(students_early)
     \/ c = "mid"   /\ s \in Range(students_mid)
     \/ c = "late"  /\ s \in Range(students_late)})

\* C8: every participant who is not forced belongs to exactly one cohort,
\* every forced participant to none, and the rows of a forced participant
\* are its forced placements only.
C8_CohortPartition ==
  /\ \A s \in Students \ forced_students : CohortsOf(s) = 1
  /\ \A s \in forced_students : CohortsOf(s) = 0
  /\ pc # "build" =>
       \A s \in forced_students :
         Cardinality({j \in 1..Len(rows) : rows[j].Student = s}) = Len(pre_assign[s])

C8_Witness ==
  /\ pc = "done"
  /\ \E s \in Students \ forced_students : dates[s] = early_cut
  /\ \E s \in Students \ forced_students : dates[s] = mid_cut
  /\ \E s \in forced_students : dates[s] < early_cut
  /\ Assigned \ forced_students # {}

\* C9 as stated: when the first cohort solve starts, a slot occupied by a
\* forced participant has its schedule capacity minus 1, every other slot
\* its schedule capacity.
C9_ForcedMinusOne ==
  pc = "solve_early" =>
    \A k \in SlotKeys :
      cap_map[k] = Capacity[k] - (IF ForcedPlacements(k) > 0 THEN 1 ELSE 0)

\* C9 amended: when the first cohort solve starts, every slot has its
\* schedule capacity minus the number of forced participants placed in it,
\* which is 2 for (Vissen, Tuesday, 1).
C9_ForcedMinusCount ==
  pc = "solve_early" =>
    /\ \A k \in SlotKeys : cap_map[k] = Capacity[k] - ForcedPlacements(k)
    /\ ForcedPlacements(<<"Vissen", "Tuesday", 1>>) = 2

C9_Witness ==
  /\ pc = "solve_early"
  /\ cap_map[<<"Vissen", "Tuesday", 1>>] = Capacity[<<"Vissen", "Tuesday", 1>>] - 2
  /\ cap_map[<<"Zwemmen", "Tuesday", 2>>] = Capacity[<<"Zwemmen", "Tuesday", 2>>]
  /\ Len(students_early) > 0

\* the participants whose cohort has been solved
Solved ==
  CASE pc \in {"build", "probe", "incr", "solve_early"} -> {}
    [] pc = "solve_mid"  -> Range(students_early)
    [] pc = "solve_late" -> Range(students_early) \cup Range(students_mid)
    [] OTHER             -> Range(all_students)

\* C10: cohorts are solved in the order early, mid, late, and at every
\* point the capacity table is the schedule capacity minus the forced
\* placements minus the assignments of the cohorts solved so far; the
\* probes and the incremental test leave it untouched.
C10_SequentialResidual ==
  pc # "build" =>
    /\ Assigned \ forced_students \subseteq Solved
    /\ \A k \in SlotKeys :
         cap_map[k] = Capacity[k] - ForcedPlacements(k) - AssignedBySolves(k)

C10_Witness ==
  /\ pc = "solve_late"
  /\ Len(students_late) > 0
  /\ Range(students_early) \cap Assigned # {}
  /\ Range(students_mid) \cap Assigned # {}
  /\ cap_tmp # cap_map

\* the titles of zone z that participant s submitted with the given rank
TitlesRanked(s, z, r) ==
  {w \in workshops :
     zone_map[w] = z /\ \E n \in 1..Len(prefs[s]) : prefs[s][n] = <<w, r>>}

\* the distinct preferred (rank 1 or rank 2) titles of participant s in zone z
PreferredTitles(s, z) == TitlesRanked(s, z, 1) \cup TitlesRanked(s, z, 2)

\* the titles participant s ranked second and never first in zone z
SecondOnlyTitles(s, z) == TitlesRanked(s, z, 2) \ TitlesRanked(s, z, 1)

\* the shortfall of preferred titles below two
Shortfall(s, z) ==
  IF Cardinality(PreferredTitles(s, z)) < 2
  THEN 2 - Cardinality(PreferredTitles(s, z))
  ELSE 0

\* the participants a model is built for
Builds == Range(all_students)

\* C11 as stated: for every participant and zone, the upper bound on the
\* random-tier slot-units is 2 minus the number of distinct preferred
\* (rank 1 or rank 2) titles in the zone when there are fewer than 2 such
\* titles, and 0 otherwise.
C11_RandomCapShortfall ==
  pc # "build" =>
    \A s \in Builds, z \in zones : allow_random(cost(s), z) = Shortfall(s, z)

\* C11 as the code has it: for every participant and zone, the upper bound
\* on the random-tier slot-units is 1 when the participant has no title in
\* the zone ranked second and not also first, and 0 otherwise, whatever the
\* number of first-choice titles.
C11_RandomCapNoSeconds ==
  pc # "build" =>
    \A s \in Builds, z \in zones :
      allow_random(cost(s), z) = IF SecondOnlyTitles(s, z) = {} THEN 1 ELSE 0

\* a solved participant with two first choices and no second choice in one
\* zone (bound 1, shortfall 0), and a second choice in another (bound 0)
C11_Witness ==
  /\ pc = "done"
  /\ \E s \in Builds \cap Assigned :
       /\ \E z \in zones :
            /\ Cardinality(TitlesRanked(s, z, 1)) = 2
            /\ SecondOnlyTitles(s, z) = {}
            /\ allow_random(cost(s), z) = 1
       /\ \E z \in zones :
            /\ SecondOnlyTitles(s, z) # {}
            /\ allow_random(cost(s), z) = 0

====
